---- MODULE Spec2Model ----
(***************************************************************************)
(* The ETA estimator of pyc3toc: C3TOCAPI.get_train_info and               *)
(* C3TOCAPI._calc_avg_speed (src/c3toc/api.py).                            *)
(*                                                                         *)
(* Instants and durations are whole seconds, and a timedelta is rounded to *)
(* the second where Python rounds it to the microsecond.  A float speed is *)
(* the exact fraction <<trackmarker_delta, seconds_delta>>.  Python's None *)
(* is the empty tuple and a present value x is the one-element tuple <<x>>.*)
(*                                                                         *)
(* A call of get_train_info is one step that runs the whole loop over the  *)
(* trains of the feed; the state it leaves is the one at its return        *)
(* statement (or at the statement that raises), where the locals of the    *)
(* loop are still at hand.  A second step leaves the function.             *)
(*                                                                         *)
(* Spec follows one train under a feed that may report any timestamp;      *)
(* SpecFleet follows two trains under a feed that reports the instant of   *)
(* the request.                                                            *)
(***************************************************************************)
EXTENDS Integers, Sequences, FiniteSets, TLC

VARIABLES
    train_info,  \* self.train_info: train name -> train state
    clock,       \* the wall clock read by datetime.datetime.utcnow()
    pc,          \* "idle": no call in progress; "return": get_train_info is
                 \* at its return statement; "raise": it is raising
    locals,      \* while a call is in progress: train name -> the locals of
                 \* the loop body at the end of that train's iteration
    call,        \* while a call is in progress: its arguments and outcome
    threads      \* callers on threads of their own: thread -> the position
                 \* of its call of get_train_info and the locals of the call

vars == <<train_info, clock, pc, locals, call, threads>>

----------------------------------------------------------------------------
(* Bounds of the model *)

\* the clock runs from 0 to MaxTicks * Tick
MaxTicks == 2
\* the longest time the feed request may take, in ticks
MaxFetchTicks == 1
\* trackmarkers reported by the feed are 0 .. MaxTrackmarker
MaxTrackmarker == 2

\* trackmarkers reported by the feed of the two-train runs
FleetMaxTrackmarker == 1

\* the runs with a negative eta_max_jump follow an eta for this many ticks
MaxEtaTicks == 4

Trains == {"t1", "t2"}

----------------------------------------------------------------------------
(* Values *)

None == << >>
Some(x) == <<x>>
Val(o) == o[1]

Range(s) == {s[i] : i \in 1..Len(s)}

SecondsPerMinute == 60
MinHistoryMinutes == 2

\* the clock is read to the minute
Tick == SecondsPerMinute

\* an instant of the clock
Instants == {k * Tick : k \in 0..MaxTicks}

\* data['timestamp'] of the feed: ISO-8601 text without a zone suffix that
\* denotes the instant t, or text that does not parse once "Z" is appended
IsoText(t) == <<"iso", t>>
BadText == <<"bad">>
FeedTimestamps == {IsoText(t) : t \in Instants} \cup {BadText}

\* dateutil.parser.isoparse(text + "Z").replace(tzinfo=None)
Parses(text) == text[1] = "iso"
isoparse(text) == text[2]

\* the arguments of get_train_info
Configs ==
    [display_trackmarker : {1},
     eta_lookback : {1, 2},
     eta_max_jump : {0, 60},
     trackmarker_delta_arrived : {1},
     track_length : {MaxTrackmarker + 1}]

\* one entry of get_trains()['trains']
FeedData == [timestamp : FeedTimestamps, trackmarker : 0..MaxTrackmarker]

\* get_trains()['trains'].items(): (name, data) pairs, names distinct.
\* The feed of the one-train runs reports train t1, or nothing, with any
\* timestamp and trackmarker.
Snapshots ==
    {<< >>} \cup {<<[name |-> "t1", data |-> d]>> : d \in FeedData}

\* response.status_code of a request that succeeded
HttpOk == 200

\* the status codes of the requests that fail
ErrorStatuses == {404, 500}

\* What the server sends with an error status, which get_trains never
\* decodes: nothing, or an entry for train t1.
ErrorBodies ==
    {<< >>, <<[name |-> "t1", data |-> [timestamp |-> IsoText(0), trackmarker |-> 0]]>>}

\* the responses to requests.get in the one-train runs
Responses ==
    {[status_code |-> HttpOk, trains |-> s] : s \in Snapshots}
    \cup [status_code : ErrorStatuses, trains : ErrorBodies]

\* The feed of the two-train runs reports any of the trains in any order,
\* each with the timestamp of the instant c of the request or with text
\* that does not parse.
FleetFeedData(c) ==
    [timestamp : {IsoText(c), BadText}, trackmarker : 0..FleetMaxTrackmarker]
FleetEntries(c) == [name : Trains, data : FleetFeedData(c)]
FleetSnapshots(c) ==
    {<< >>}
    \cup {<<e>> : e \in FleetEntries(c)}
    \cup {s \in FleetEntries(c) \X FleetEntries(c) : s[1].name # s[2].name}

\* the responses to requests.get in the two-train runs
FleetResponses(c) ==
    {[status_code |-> HttpOk, trains |-> s] : s \in FleetSnapshots(c)}
    \cup [status_code : ErrorStatuses, trains : ErrorBodies]

\* the arguments of get_train_info in the two-train runs
FleetConfigs == {cfg \in Configs : cfg.eta_lookback = 2 /\ cfg.eta_max_jump = 60}

----------------------------------------------------------------------------
(* Arithmetic *)

\* datetime.timedelta(seconds=n/d) for d > 0 or d < 0, d # 0: the quotient
\* rounded half-to-even to the resolution of an instant
timedelta_seconds(n, d) ==
    LET nn == IF d < 0 THEN -n ELSE n
        dd == IF d < 0 THEN -d ELSE d
        q == nn \div dd
        r == nn - q * dd
    IN  IF 2 * r < dd THEN q
        ELSE IF 2 * r > dd THEN q + 1
        ELSE IF q % 2 = 0 THEN q ELSE q + 1

----------------------------------------------------------------------------
(* _calc_avg_speed *)

\* the filter of the loop over history: the entries kept in new_history
InLookback(timestamp, minutes, now) ==
    LET seconds == now - timestamp
    IN  ~(seconds > minutes * SecondsPerMinute \/ seconds < 0)

\* (mutant) the trim also drops the oldest sample of the window when more
\* than two are in it
calc_avg_speed_DropsOldest(history, minutes, track_length, now) ==
    LET in_window == SelectSeq(history, LAMBDA e : InLookback(e[1], minutes, now))
        new_history == IF Len(in_window) > 2 THEN Tail(in_window) ELSE in_window
    IN  IF Len(new_history) < 2
        THEN [avg_speed |-> None, seconds_delta |-> None, history |-> None,
              raised |-> FALSE]
        ELSE
            LET d0 == new_history[Len(new_history)][2] - new_history[1][2]
                trackmarker_delta == IF d0 < 0 THEN d0 + track_length ELSE d0
                seconds_delta == new_history[Len(new_history)][1] - new_history[1][1]
            IN  IF seconds_delta = 0
                THEN [avg_speed |-> None, seconds_delta |-> None, history |-> None,
                      raised |-> TRUE]
                ELSE [avg_speed |-> Some(<<trackmarker_delta, seconds_delta>>),
                      seconds_delta |-> Some(seconds_delta),
                      history |-> Some(new_history),
                      raised |-> FALSE]

calc_avg_speed(history, minutes, track_length, now) ==
    LET new_history == SelectSeq(history, LAMBDA e : InLookback(e[1], minutes, now))
    IN  IF Len(new_history) < 2
        THEN [avg_speed |-> None, seconds_delta |-> None, history |-> None,
              raised |-> FALSE]
        ELSE
            LET d0 == new_history[Len(new_history)][2] - new_history[1][2]
                trackmarker_delta == IF d0 < 0 THEN d0 + track_length ELSE d0
                seconds_delta == new_history[Len(new_history)][1] - new_history[1][1]
            IN  IF seconds_delta = 0
                THEN [avg_speed |-> None, seconds_delta |-> None, history |-> None,
                      raised |-> TRUE]
                ELSE [avg_speed |-> Some(<<trackmarker_delta, seconds_delta>>),
                      seconds_delta |-> Some(seconds_delta),
                      history |-> Some(new_history),
                      raised |-> FALSE]

----------------------------------------------------------------------------
(* get_train_info: one iteration of the loop over the trains *)

NewTrain ==
    [history |-> << >>, avg_speed |-> Some(<<0, 1>>), raw_eta |-> None,
     eta |-> None, arrived |-> FALSE]

\* (mutant) the whole sample, not its timestamp, is looked up in the history
AddToHistory_BySample(history, timestamp, trackmarker) ==
    IF <<timestamp, trackmarker>> \notin Range(history)
    THEN Append(history, <<timestamp, trackmarker>>)
    ELSE history

\* (mutant) the sample is appended without a look at the history
AddToHistory_Always(history, timestamp, trackmarker) ==
    Append(history, <<timestamp, trackmarker>>)

\* history after "Add current location to history if timestamp not yet present"
AddToHistory(history, timestamp, trackmarker) ==
    IF timestamp \notin {e[1] : e \in Range(history)}
    THEN Append(history, <<timestamp, trackmarker>>)
    ELSE history

\* history after "Update history with truncated version"
UpdateHistory(added, truncated) ==
    IF truncated # None THEN Val(truncated) ELSE added

\* "Calculate distance between display and train in track units"
Distance(display_trackmarker, trackmarker, track_length) ==
    LET trackmarker_delta == display_trackmarker - trackmarker
    IN  IF trackmarker_delta < 0 THEN trackmarker_delta + track_length
        ELSE trackmarker_delta

\* (mutant) the span of the history is not looked at
RawEta_NoSpanCheck(avg_speed, seconds_delta, history, trackmarker_delta) ==
    IF avg_speed = None \/ Val(avg_speed)[1] = 0
    THEN None
    ELSE Some(history[Len(history)][1]
              + timedelta_seconds(trackmarker_delta * Val(avg_speed)[2],
                                  Val(avg_speed)[1]))

\* (mutant) the extrapolation starts at the first history timestamp
RawEta_FromFirst(avg_speed, seconds_delta, history, trackmarker_delta) ==
    IF \/ (avg_speed # None /\ Val(avg_speed)[1] = 0)
       \/ seconds_delta = None
       \/ Val(seconds_delta) < MinHistoryMinutes * SecondsPerMinute
    THEN None
    ELSE Some(history[1][1]
              + timedelta_seconds(trackmarker_delta * Val(avg_speed)[2],
                                  Val(avg_speed)[1]))

\* the raw ETA of a train that is not marked as arrived
RawEta(avg_speed, seconds_delta, history, trackmarker_delta) ==
    IF \/ (avg_speed # None /\ Val(avg_speed)[1] = 0)
       \/ seconds_delta = None
       \/ Val(seconds_delta) < MinHistoryMinutes * SecondsPerMinute
    THEN None
    ELSE Some(history[Len(history)][1]
              + timedelta_seconds(trackmarker_delta * Val(avg_speed)[2],
                                  Val(avg_speed)[1]))

\* (mutant) the soft ETA follows the raw ETA without a limit
SoftEta_NoClamp(old_eta, raw_eta, allow_eta_jump, eta_max_jump) == raw_eta

\* (mutant) no eta is reported while there is no previous eta
SoftEta_KeepNone(old_eta, raw_eta, allow_eta_jump, eta_max_jump) ==
    IF raw_eta # None /\ old_eta # None
    THEN IF allow_eta_jump
         THEN raw_eta
         ELSE LET eta == Val(old_eta)
                  delta == Val(raw_eta) - eta
              IN  IF delta > eta_max_jump THEN Some(eta + eta_max_jump)
                  ELSE IF delta < -eta_max_jump THEN Some(eta - eta_max_jump)
                  ELSE raw_eta
    ELSE None

\* (mutant) the limited step is taken away from the raw ETA
SoftEta_WrongSign(old_eta, raw_eta, allow_eta_jump, eta_max_jump) ==
    IF raw_eta # None
    THEN IF allow_eta_jump
         THEN raw_eta
         ELSE LET eta == IF old_eta # None THEN Val(old_eta) ELSE Val(raw_eta)
                  delta == Val(raw_eta) - eta
              IN  IF delta > eta_max_jump THEN Some(eta - eta_max_jump)
                  ELSE IF delta < -eta_max_jump THEN Some(eta + eta_max_jump)
                  ELSE raw_eta
    ELSE None

\* the soft ETA of a train that is not marked as arrived
SoftEta(old_eta, raw_eta, allow_eta_jump, eta_max_jump) ==
    IF raw_eta # None
    THEN IF allow_eta_jump
         THEN raw_eta
         ELSE LET eta == IF old_eta # None THEN Val(old_eta) ELSE Val(raw_eta)
                  delta == Val(raw_eta) - eta
              IN  IF delta > eta_max_jump THEN Some(eta + eta_max_jump)
                  ELSE IF delta < -eta_max_jump THEN Some(eta - eta_max_jump)
                  ELSE raw_eta
    ELSE None

\* (mutant) a train at the edge of the zone counts as arrived
InZone_Inclusive(trackmarker_delta, trackmarker_delta_arrived) ==
    trackmarker_delta <= trackmarker_delta_arrived

\* "If train is within a certain distance, mark as arrived"
InZone(trackmarker_delta, trackmarker_delta_arrived) ==
    trackmarker_delta < trackmarker_delta_arrived

\* (mutant) the departure of a train never allows a jump
AllowEtaJump_Never(was_arrived, arrived) == FALSE

\* allow_eta_jump: the train was marked as arrived, but isn't anymore
AllowEtaJump(was_arrived, arrived) == ~arrived /\ was_arrived

\* (mutant) an arrived train gets eta = utcnow, its raw_eta is extrapolated
Etas_RawNotNow(old_eta, arrived, allow_eta_jump, calc, history, trackmarker_delta, utcnow, eta_max_jump) ==
    LET raw_eta == RawEta(calc.avg_speed, calc.seconds_delta, history,
                          trackmarker_delta)
    IN  IF arrived
        THEN [raw_eta |-> raw_eta, eta |-> Some(utcnow)]
        ELSE [raw_eta |-> raw_eta,
              eta |-> SoftEta(old_eta, raw_eta, allow_eta_jump, eta_max_jump)]

\* raw_eta and eta as stored by "Set ETA to now if train is marked as
\* arrived" and its else branch
Etas(old_eta, arrived, allow_eta_jump, calc, history, trackmarker_delta, utcnow, eta_max_jump) ==
    IF arrived
    THEN [raw_eta |-> Some(utcnow), eta |-> Some(utcnow)]
    ELSE LET raw_eta == RawEta(calc.avg_speed, calc.seconds_delta, history,
                               trackmarker_delta)
         IN  [raw_eta |-> raw_eta,
              eta |-> SoftEta(old_eta, raw_eta, allow_eta_jump, eta_max_jump)]

\* The body of the loop for a train whose timestamp parsed.  old is the
\* train's state on entry (NewTrain when it was not known), utcnow the
\* clock read on entry of get_train_info, now the clock read in
\* _calc_avg_speed.  Gives the state stored for the train and the locals.
EvalTrain(old, data, cfg, utcnow, now) ==
    LET timestamp == isoparse(data.timestamp)
        added == AddToHistory(old.history, timestamp, data.trackmarker)
        calc == calc_avg_speed(added, cfg.eta_lookback, cfg.track_length, now)
        history == UpdateHistory(added, calc.history)
        trackmarker_delta ==
            Distance(cfg.display_trackmarker, data.trackmarker, cfg.track_length)
        arrived == InZone(trackmarker_delta, cfg.trackmarker_delta_arrived)
        allow_eta_jump == AllowEtaJump(old.arrived, arrived)
        etas == Etas(old.eta, arrived, allow_eta_jump, calc, history,
                     trackmarker_delta, utcnow, cfg.eta_max_jump)
    IN  IF calc.raised
        THEN [raised |-> TRUE,
              state |-> [old EXCEPT !.history = added],
              locals |-> None]
        ELSE [raised |-> FALSE,
              state |-> [history |-> history, avg_speed |-> calc.avg_speed,
                         raw_eta |-> etas.raw_eta, eta |-> etas.eta,
                         arrived |-> arrived],
              locals |-> Some([old |-> old, known |-> TRUE,
                          timestamp |-> timestamp,
                          trackmarker |-> data.trackmarker,
                          added |-> added,
                          seconds_delta |-> calc.seconds_delta,
                          trackmarker_delta |-> trackmarker_delta,
                          allow_eta_jump |-> allow_eta_jump])]

----------------------------------------------------------------------------
(* get_train_info: the loop *)

\* (mutant) train_info is rebuilt with the stored train alone
StoreTrain_Alone(info, name, state) == [n \in {name} |-> state]

\* self.train_info[name] = ... and the assignments to its items
StoreTrain(info, name, state) ==
    [n \in DOMAIN info \cup {name} |-> IF n = name THEN state ELSE info[n]]

\* The loop from entry i of the snapshot on, over the pair
\* [info, locs, raised, done]: it stops at the first entry that raises.
RECURSIVE Loop(_, _, _, _, _, _)
Loop(acc, trains, i, cfg, utcnow, now) ==
    IF i > Len(trains) THEN acc
    ELSE
        LET name == trains[i].name
            data == trains[i].data
        IN  IF ~Parses(data.timestamp)
            THEN [acc EXCEPT !.raised = "ValueError"]
            ELSE
                LET known == name \in DOMAIN acc.info
                    old == IF known THEN acc.info[name] ELSE NewTrain
                    r == EvalTrain(old, data, cfg, utcnow, now)
                    info == StoreTrain(acc.info, name, r.state)
                IN  IF r.raised
                    THEN [acc EXCEPT !.info = info, !.raised = "ZeroDivisionError"]
                    ELSE Loop([info |-> info,
                               locs |-> [n \in DOMAIN acc.locs \cup {name} |->
                                           IF n = name
                                           THEN [Val(r.locals) EXCEPT !.known = known]
                                           ELSE acc.locs[n]],
                               raised |-> "",
                               done |-> Append(acc.done, name)],
                              trains, i + 1, cfg, utcnow, now)

----------------------------------------------------------------------------
(* get_trains *)

\* (mutant) the status code of the response is not looked at
get_trains_AnyStatus(response) ==
    [raised |-> "", data |-> Some(response.trains), requests |-> 1]

\* get_trains(): one request; APIError unless the status code is 200, else
\* the decoded 'trains' of the response
get_trains(response) ==
    IF response.status_code # HttpOk
    THEN [raised |-> "APIError", data |-> None, requests |-> 1]
    ELSE [raised |-> "", data |-> Some(response.trains), requests |-> 1]

----------------------------------------------------------------------------
(* The state machine *)

\* self.train_info = {}
NoTrains == [n \in {} |-> NewTrain]
NoLocals == [n \in {} |-> None]
NoCall == [made |-> FALSE]

\* the callers that share the C3TOCAPI instance from threads of their own
Threads == {"a", "b"}

\* a thread that has not called get_train_info
NotCalling == [at |-> "idle"]

Init ==
    /\ train_info = [n \in {} |-> NewTrain]
    /\ clock = 0
    /\ pc = "idle"
    /\ locals = NoLocals
    /\ call = NoCall
    /\ threads = [t \in Threads |-> NotCalling]

\* time passes between two calls
Pass ==
    /\ pc = "idle"
    /\ clock < MaxTicks * Tick
    /\ clock' = clock + Tick
    /\ UNCHANGED <<train_info, pc, locals, call, threads>>

\* One call of get_train_info(cfg), up to its return statement or to the
\* statement that raises: the feed answers response after fetch ticks.
GetTrainInfo(response, cfg, fetch) ==
    /\ pc = "idle"
    /\ clock + fetch * Tick <= MaxTicks * Tick
    /\ LET utcnow == clock
           now == clock + fetch * Tick
           got == get_trains(response)
           start == [info |-> train_info, locs |-> NoLocals,
                     raised |-> got.raised, done |-> << >>]
           trains == IF got.raised = "" THEN Val(got.data) ELSE << >>
           r == IF got.raised = ""
                THEN Loop(start, trains, 1, cfg, utcnow, now)
                ELSE start
       IN  /\ train_info' = r.info
           /\ locals' = r.locs
           /\ clock' = now
           /\ call' = [made |-> TRUE, cfg |-> cfg, utcnow |-> utcnow, now |-> now,
                       status_code |-> response.status_code,
                       requests |-> got.requests,
                       trains |-> trains, done |-> r.done, raised |-> r.raised,
                       before |-> train_info]
           /\ pc' = IF r.raised = "" THEN "return" ELSE "raise"
           /\ UNCHANGED threads

\* "return self.train_info": the frame of the call is dropped
Return ==
    /\ pc = "return"
    /\ pc' = "idle"
    /\ locals' = NoLocals
    /\ call' = NoCall
    /\ UNCHANGED <<train_info, clock, threads>>

\* the exception leaves get_train_info: the frame of the call is dropped
Raise ==
    /\ pc = "raise"
    /\ pc' = "idle"
    /\ locals' = NoLocals
    /\ call' = NoCall
    /\ UNCHANGED <<train_info, clock, threads>>

Next ==
    \/ Pass
    \/ \E response \in Responses, cfg \in Configs, fetch \in 0..MaxFetchTicks :
          GetTrainInfo(response, cfg, fetch)
    \/ Return
    \/ Raise

Spec == Init /\ [][Next]_vars

\* two trains, a feed that reports the instant of the request
NextFleet ==
    \/ Pass
    \/ \E response \in FleetResponses(clock), cfg \in FleetConfigs,
          fetch \in 0..MaxFetchTicks :
          GetTrainInfo(response, cfg, fetch)
    \/ Return
    \/ Raise

SpecFleet == Init /\ [][NextFleet]_vars

\* Arguments a caller may pass that the documented ranges exclude: a track
\* of length 0, a negative eta_max_jump, a negative trackmarker_delta_arrived.
ArgConfigs ==
    [display_trackmarker : {1},
     eta_lookback : {2},
     eta_max_jump : {-60, 60},
     trackmarker_delta_arrived : {-1, 1},
     track_length : {0, MaxTrackmarker + 1}]

\* the responses to requests.get in the runs over ArgConfigs: train t1, or
\* nothing, with the timestamp of the instant c of the request
ArgResponses(c) ==
    {r \in Responses :
        \A i \in 1..Len(r.trains) :
            r.trains[i].data.timestamp \in {IsoText(c), BadText}}

\* A negative eta_max_jump moves the eta away from the raw eta by one jump
\* per call, without end: the runs stop calling once an eta has left
\* MaxEtaTicks ticks around the start of the clock.
EtasInHorizon ==
    \A n \in DOMAIN train_info :
        train_info[n].eta # None =>
            /\ Val(train_info[n].eta) >= -(MaxEtaTicks * Tick)
            /\ Val(train_info[n].eta) <= MaxEtaTicks * Tick

\* one train, any of the arguments of ArgConfigs in any call
NextArgs ==
    \/ Pass
    \/ \E response \in ArgResponses(clock), cfg \in ArgConfigs,
          fetch \in 0..MaxFetchTicks :
          /\ EtasInHorizon
          /\ GetTrainInfo(response, cfg, fetch)
    \/ Return
    \/ Raise

SpecArgs == Init /\ [][NextArgs]_vars

----------------------------------------------------------------------------
(* get_train_info called from two threads *)

\* The train the feed of these runs reports.
ThreadTrain == "t1"

\* the snapshots of these runs: ThreadTrain alone, with the timestamp of the
\* instant c of the request
ThreadFeedData(c) == [timestamp : {IsoText(c)}, trackmarker : 0..FleetMaxTrackmarker]

\* Thread t enters get_train_info(cfg): it reads utcnow, fetches the feed
\* and parses the timestamp of the train.
ThreadBegin(t, data, cfg) ==
    /\ threads[t].at = "idle"
    /\ threads' = [threads EXCEPT ![t] =
                      [at |-> "init", data |-> data, cfg |-> cfg,
                       utcnow |-> clock, timestamp |-> isoparse(data.timestamp)]]
    /\ UNCHANGED <<train_info, clock, pc, locals, call>>

\* "Init train data if train is new"
ThreadInitTrain(t) ==
    /\ threads[t].at = "init"
    /\ train_info' = IF ThreadTrain \notin DOMAIN train_info
                     THEN StoreTrain(train_info, ThreadTrain, NewTrain)
                     ELSE train_info
    /\ threads' = [threads EXCEPT ![t].at = "check"]
    /\ UNCHANGED <<clock, pc, locals, call>>

\* "if timestamp not in [e[0] for e in ...['history']]": the test alone
ThreadCheck(t) ==
    /\ threads[t].at = "check"
    /\ threads' = [threads EXCEPT ![t].at =
                      IF AddToHistory(train_info[ThreadTrain].history,
                                      threads[t].timestamp,
                                      threads[t].data.trackmarker)
                             # train_info[ThreadTrain].history
                      THEN "append" ELSE "calc"]
    /\ UNCHANGED <<train_info, clock, pc, locals, call>>

\* "...['history'].append((timestamp, data['trackmarker']))"
ThreadAppend(t) ==
    /\ threads[t].at = "append"
    /\ train_info' = [train_info EXCEPT ![ThreadTrain].history =
                         Append(@, <<threads[t].timestamp,
                                     threads[t].data.trackmarker>>)]
    /\ threads' = [threads EXCEPT ![t].at = "calc"]
    /\ UNCHANGED <<clock, pc, locals, call>>

\* the call of _calc_avg_speed on the history as it is now
ThreadCalc(t) ==
    /\ threads[t].at = "calc"
    /\ LET calc == calc_avg_speed(train_info[ThreadTrain].history,
                                  threads[t].cfg.eta_lookback,
                                  threads[t].cfg.track_length, clock)
       IN  threads' = [threads EXCEPT ![t] =
                          [at |-> IF calc.raised THEN "raised" ELSE "store",
                           data |-> threads[t].data, cfg |-> threads[t].cfg,
                           utcnow |-> threads[t].utcnow,
                           timestamp |-> threads[t].timestamp,
                           now |-> clock, calc |-> calc]]
    /\ UNCHANGED <<train_info, clock, pc, locals, call>>

\* the rest of the loop body, from "Update average speed" on, and the return
ThreadStore(t) ==
    /\ threads[t].at = "store"
    /\ LET cfg == threads[t].cfg
           calc == threads[t].calc
           cur == train_info[ThreadTrain]
           history == UpdateHistory(cur.history, calc.history)
           trackmarker_delta ==
               Distance(cfg.display_trackmarker, threads[t].data.trackmarker,
                        cfg.track_length)
           arrived == InZone(trackmarker_delta, cfg.trackmarker_delta_arrived)
           allow_eta_jump == AllowEtaJump(cur.arrived, arrived)
           etas == Etas(cur.eta, arrived, allow_eta_jump, calc, history,
                        trackmarker_delta, threads[t].utcnow, cfg.eta_max_jump)
       IN  train_info' = StoreTrain(train_info, ThreadTrain,
                             [history |-> history, avg_speed |-> calc.avg_speed,
                              raw_eta |-> etas.raw_eta, eta |-> etas.eta,
                              arrived |-> arrived])
    /\ threads' = [threads EXCEPT ![t].at = "done"]
    /\ UNCHANGED <<clock, pc, locals, call>>

\* each thread calls get_train_info once; their steps interleave freely
NextThreads ==
    \/ Pass
    \/ \E t \in Threads, data \in ThreadFeedData(clock), cfg \in FleetConfigs :
          ThreadBegin(t, data, cfg)
    \/ \E t \in Threads : ThreadInitTrain(t)
    \/ \E t \in Threads : ThreadCheck(t)
    \/ \E t \in Threads : ThreadAppend(t)
    \/ \E t \in Threads : ThreadCalc(t)
    \/ \E t \in Threads : ThreadStore(t)

SpecThreads == Init /\ [][NextThreads]_vars

----------------------------------------------------------------------------
(* Vocabulary of the properties.  They are stated over the states in which  *)
(* a call has run to its return statement: train_info holds the result and  *)
(* locals the locals of every train the call evaluated.                     *)

Abs(x) == IF x < 0 THEN -x ELSE x

\* the trains the call in progress has evaluated
Evaluated == DOMAIN locals

\* display_trackmarker - position, plus track_length if negative
Gap(n) ==
    LET d == call.cfg.display_trackmarker - locals[n].trackmarker
    IN  IF d < 0 THEN d + call.cfg.track_length ELSE d

\* the samples of the ingested history within the lookback window of the call
InWindow(n) ==
    SelectSeq(locals[n].added,
              LAMBDA e : /\ call.now - e[1] >= 0
                         /\ call.now - e[1] <= call.cfg.eta_lookback * 60)

Timestamps(history) == {e[1] : e \in Range(history)}

----------------------------------------------------------------------------
(* C1 *)

\* C1 as claimed: between two consecutive evaluations of a train, the second
\* without a jump allowance, eta moves by at most eta_max_jump seconds when
\* it is defined before and after.
C1_ClampBound_AsClaimed ==
    \A n \in Evaluated :
        (/\ ~locals[n].allow_eta_jump
         /\ locals[n].old.eta # None
         /\ train_info[n].eta # None)
        => Abs(Val(train_info[n].eta) - Val(locals[n].old.eta))
               <= call.cfg.eta_max_jump

\* C1 amended: the bound holds when, in addition, the second evaluation does
\* not find the train in the arrival zone (there eta is set to utcnow).
C1_ClampBound ==
    \A n \in Evaluated :
        (/\ ~locals[n].allow_eta_jump
         /\ ~train_info[n].arrived
         /\ locals[n].old.eta # None
         /\ train_info[n].eta # None)
        => Abs(Val(train_info[n].eta) - Val(locals[n].old.eta))
               <= call.cfg.eta_max_jump

\* a clamped evaluation: the raw ETA is further than eta_max_jump from the
\* old eta, and the new eta is exactly eta_max_jump from it
C1_Witness ==
    \E n \in Evaluated :
        /\ ~locals[n].allow_eta_jump
        /\ ~train_info[n].arrived
        /\ locals[n].old.eta # None
        /\ train_info[n].eta # None
        /\ call.cfg.eta_max_jump > 0
        /\ Abs(Val(train_info[n].raw_eta) - Val(locals[n].old.eta))
               > call.cfg.eta_max_jump
        /\ Abs(Val(train_info[n].eta) - Val(locals[n].old.eta))
               = call.cfg.eta_max_jump

----------------------------------------------------------------------------
(* C2 *)

\* C2: a train marked as arrived has eta = raw_eta, both defined, and equal
\* to the utcnow of the call that evaluated it; an evaluation that finds the
\* gap below trackmarker_delta_arrived marks the train arrived with
\* eta = raw_eta = utcnow.
C2_ArrivedEtaIsNow ==
    /\ \A n \in DOMAIN train_info :
          train_info[n].arrived =>
              /\ train_info[n].eta # None
              /\ train_info[n].raw_eta = train_info[n].eta
              /\ n \in Evaluated => train_info[n].eta = Some(call.utcnow)
    /\ \A n \in Evaluated :
          Gap(n) < call.cfg.trackmarker_delta_arrived =>
              /\ train_info[n].arrived
              /\ train_info[n].eta = Some(call.utcnow)
              /\ train_info[n].raw_eta = Some(call.utcnow)

\* a train found in the arrival zone whose defined eta is overwritten with a
\* different one, in a call whose feed request took time
C2_Witness ==
    \E n \in Evaluated :
        /\ train_info[n].arrived
        /\ locals[n].old.eta # None
        /\ locals[n].old.eta # train_info[n].eta
        /\ call.now # call.utcnow

----------------------------------------------------------------------------
(* C3 *)

\* C3: no history holds two samples with the same timestamp, and ingesting a
\* sample whose timestamp the history already holds leaves its length as it
\* was (the stored history is no longer either).
C3_NoDuplicateTimestamps ==
    /\ \A n \in DOMAIN train_info :
          LET h == train_info[n].history
          IN  \A i, j \in 1..Len(h) : h[i][1] = h[j][1] => i = j
    /\ \A n \in Evaluated :
          locals[n].timestamp \in Timestamps(locals[n].old.history) =>
              /\ Len(locals[n].added) = Len(locals[n].old.history)
              /\ Len(train_info[n].history) <= Len(locals[n].old.history)

\* a sample is ingested whose timestamp is in the history with another position
C3_Witness ==
    \E n \in Evaluated :
        \E e \in Range(locals[n].old.history) :
            /\ e[1] = locals[n].timestamp
            /\ e[2] # locals[n].trackmarker
            /\ Len(train_info[n].history) >= 2

----------------------------------------------------------------------------
(* C4 *)

\* C4 as claimed: after an evaluation every stored sample of the train is
\* between 0 and eta_lookback * 60 seconds old.
C4_HistoryInLookback_AsClaimed ==
    \A n \in Evaluated :
        \A e \in Range(train_info[n].history) :
            /\ call.now - e[1] >= 0
            /\ call.now - e[1] <= call.cfg.eta_lookback * 60

----------------------------------------------------------------------------
(* C5 *)

\* C5: the evaluation in which arrived goes from true to false reports
\* eta = raw_eta, and the jump allowance is granted in that evaluation only.
C5_DepartureJump ==
    \A n \in Evaluated :
        /\ (locals[n].old.arrived /\ ~train_info[n].arrived)
               => train_info[n].eta = train_info[n].raw_eta
        /\ locals[n].allow_eta_jump
               <=> (locals[n].old.arrived /\ ~train_info[n].arrived)

\* a departure whose eta jumps by more than eta_max_jump
C5_Witness ==
    \E n \in Evaluated :
        /\ locals[n].old.arrived
        /\ ~train_info[n].arrived
        /\ train_info[n].eta # None
        /\ Abs(Val(train_info[n].eta) - Val(locals[n].old.eta))
               > call.cfg.eta_max_jump

----------------------------------------------------------------------------
(* C6 *)

\* C6: after an evaluation, arrived is true exactly when the gap of that
\* evaluation is below trackmarker_delta_arrived; so a train that was arrived
\* stays arrived over an evaluation unless that finds the gap at or above it.
C6_ArrivedIffInZone ==
    \A n \in Evaluated :
        /\ train_info[n].arrived <=> Gap(n) < call.cfg.trackmarker_delta_arrived
        /\ (/\ locals[n].old.arrived
            /\ ~(Gap(n) >= call.cfg.trackmarker_delta_arrived))
               => train_info[n].arrived

\* a train that was arrived is evaluated again and stays arrived
C6_Witness ==
    \E n \in Evaluated :
        /\ locals[n].old.arrived
        /\ train_info[n].arrived
        /\ call.utcnow > 0

----------------------------------------------------------------------------
(* C7 *)

\* C7: a train that is not arrived after an evaluation has raw_eta = None and
\* eta = None if its average speed is zero or undefined or its in-window
\* samples span less than 120 seconds from the first to the last.
C7_NoEtaOnInsufficientData ==
    \A n \in Evaluated :
        LET w == InWindow(n)
            speed == train_info[n].avg_speed
        IN  (/\ ~train_info[n].arrived
             /\ \/ speed = None
                \/ Val(speed)[1] = 0
                \/ Len(w) < 2
                \/ w[Len(w)][1] - w[1][1] < 120)
            => /\ train_info[n].raw_eta = None
               /\ train_info[n].eta = None

\* a nonzero speed over samples 60 seconds apart, an eta known before
C7_Witness ==
    \E n \in Evaluated :
        LET w == InWindow(n)
        IN  /\ ~train_info[n].arrived
            /\ Len(w) = 2
            /\ w[2][1] - w[1][1] = 60
            /\ train_info[n].avg_speed # None
            /\ Val(train_info[n].avg_speed)[1] > 0
            /\ locals[n].old.eta # None
            /\ train_info[n].eta = None

----------------------------------------------------------------------------
(* C8 *)

\* the speed stored when at least 2 samples survive the lookback filter is
\* the wrapped trackmarker difference over the seconds between them
C8_SpeedFormula ==
    \A n \in Evaluated :
        LET w == InWindow(n)
            speed == train_info[n].avg_speed
            d == w[Len(w)][2] - w[1][2]
            delta == IF d < 0 THEN d + call.cfg.track_length ELSE d
            seconds == w[Len(w)][1] - w[1][1]
        IN  Len(w) >= 2 =>
                /\ speed # None
                /\ Val(speed)[2] # 0
                /\ Val(speed)[1] * seconds = delta * Val(speed)[2]

\* C8 as claimed: that speed is stored, and it is never negative for
\* positions in [0, track_length).
C8_SpeedNonNegative_AsClaimed ==
    /\ C8_SpeedFormula
    /\ \A n \in Evaluated :
          LET w == InWindow(n)
              speed == train_info[n].avg_speed
          IN  (/\ Len(w) >= 2
               /\ \A e \in Range(w) : e[2] >= 0 /\ e[2] < call.cfg.track_length)
              => Val(speed)[1] * Val(speed)[2] >= 0

----------------------------------------------------------------------------
(* C9 *)

----------------------------------------------------------------------------
(* C10 *)

\* the names of the trains in the snapshot of the call in progress
InSnapshot == {call.trains[i].name : i \in 1..Len(call.trains)}

\* C10: every train known before a call is known after it, and the state of
\* a known train that is not in the snapshot is as it was before the call.
C10_Frame ==
    call.made =>
        \A n \in DOMAIN call.before :
            /\ n \in DOMAIN train_info
            /\ n \notin InSnapshot => train_info[n] = call.before[n]

\* a call evaluates one train and changes its state, while another train
\* that has an extrapolated eta is not in the snapshot
C10_Witness ==
    /\ pc = "return"
    /\ \E n \in DOMAIN call.before, m \in Evaluated :
          /\ n \notin InSnapshot
          /\ call.before[n].eta # None
          /\ ~call.before[n].arrived
          /\ m \in DOMAIN call.before
          /\ train_info[m] # call.before[m]

----------------------------------------------------------------------------
(* C11 *)

\* C11 as claimed: whatever another train of the snapshot reports, every
\* train of the snapshot whose own timestamp parses is evaluated by the call.
C11_OtherTrainsUpdated_AsClaimed ==
    call.made =>
        \A i \in 1..Len(call.trains) :
            Parses(call.trains[i].data.timestamp)
                => call.trains[i].name \in Evaluated

\* a train without enough history for a speed does not stop the loop
C11_InsufficientHistoryGoesOn ==
    (call.made /\ call.raised = "") =>
        \A i \in 1..Len(call.trains) : call.trains[i].name \in Evaluated

----------------------------------------------------------------------------
(* C12 *)

\* C12 as claimed: a call with track_length = 0 raises; it never reaches its
\* return statement and stores no train state.
C12_ZeroTrackLengthRaises_AsClaimed ==
    (call.made /\ call.cfg.track_length = 0) =>
        /\ pc = "raise"
        /\ Evaluated = {}

----------------------------------------------------------------------------
(* C13 *)

\* C13 as claimed: a call with a negative eta_max_jump or a negative
\* trackmarker_delta_arrived raises and leaves train_info as it was.
C13_NegativeArgsRejected_AsClaimed ==
    (/\ call.made
     /\ \/ call.cfg.eta_max_jump < 0
        \/ call.cfg.trackmarker_delta_arrived < 0) =>
        /\ pc = "raise"
        /\ train_info = call.before

----------------------------------------------------------------------------
(* C14 *)

\* C14: a call whose request is answered with a status code other than 200
\* raises APIError after that one request and leaves train_info as it was.
C14_FeedErrorSurfaces ==
    (call.made /\ call.status_code # HttpOk) =>
        /\ pc = "raise"
        /\ call.raised = "APIError"
        /\ call.requests = 1
        /\ train_info = call.before
        /\ Evaluated = {}

\* a failed request while a train with an eta is known, after a fetch that
\* took time
C14_Witness ==
    /\ call.made
    /\ call.status_code # HttpOk
    /\ call.now # call.utcnow
    /\ \E n \in DOMAIN train_info : train_info[n].eta # None

----------------------------------------------------------------------------
(* C15 *)

\* C15 as claimed: whatever timestamps the feed reports, every stored
\* history is strictly ascending by timestamp.
C15_HistoryAscending_AsClaimed ==
    \A n \in DOMAIN train_info :
        LET history == train_info[n].history
        IN  \A i \in 1..Len(history) - 1 : history[i][1] < history[i + 1][1]

\* when the feed reports timestamps in ascending order, the history is
\* ascending: a report never older than the newest stored sample keeps it so
C15_AscendingFeedKeepsOrder ==
    \A n \in Evaluated :
        LET before == locals[n].old.history
            history == train_info[n].history
        IN  (/\ \A i \in 1..Len(before) - 1 : before[i][1] < before[i + 1][1]
             /\ \A i \in 1..Len(before) : before[i][1] <= locals[n].timestamp)
            => \A i \in 1..Len(history) - 1 : history[i][1] < history[i + 1][1]

----------------------------------------------------------------------------
(* C16 *)

\* what _calc_avg_speed gave for train n in the call in progress
Trimmed(n) ==
    calc_avg_speed(locals[n].added, call.cfg.eta_lookback,
                   call.cfg.track_length, call.now)

\* C16: _calc_avg_speed applied, with the same lookback and the same now, to
\* the history it has trimmed gives the same samples, the same avg_speed and
\* the same time span, also when fewer than 2 samples are in the window.
C16_TrimIdempotent ==
    \A n \in Evaluated :
        LET once == Trimmed(n)
            kept == IF once.history # None THEN Val(once.history) ELSE InWindow(n)
            twice == calc_avg_speed(kept, call.cfg.eta_lookback,
                                    call.cfg.track_length, call.now)
            stored == calc_avg_speed(train_info[n].history, call.cfg.eta_lookback,
                                     call.cfg.track_length, call.now)
        IN  /\ train_info[n].avg_speed = once.avg_speed
            /\ twice = once
            /\ stored = once
            /\ once.history # None =>
                   /\ Val(once.history) = InWindow(n)
                   /\ train_info[n].history = Val(once.history)
                   /\ UpdateHistory(train_info[n].history, stored.history)
                          = train_info[n].history
            /\ SelectSeq(kept, LAMBDA e : InLookback(e[1], call.cfg.eta_lookback,
                                                     call.now)) = kept

\* an evaluation whose trim removed a sample and kept the others
C16_Witness ==
    \E n \in Evaluated :
        /\ Trimmed(n).history # None
        /\ Len(Val(Trimmed(n).history)) < Len(locals[n].added)
        /\ train_info[n].history = Val(Trimmed(n).history)

----------------------------------------------------------------------------
(* C18 *)

\* C18: a train's eta is None exactly when its raw_eta is None, and an
\* evaluation of a train outside the arrival zone that had no eta reports
\* the raw ETA itself.
C18_EtaIffRawEta ==
    /\ \A n \in DOMAIN train_info :
           (train_info[n].eta = None) <=> (train_info[n].raw_eta = None)
    /\ \A n \in Evaluated :
           (/\ locals[n].old.eta = None
            /\ ~train_info[n].arrived
            /\ train_info[n].raw_eta # None)
           => train_info[n].eta = train_info[n].raw_eta

\* a first raw estimate, of a train that had no eta and has not left the
\* arrival zone in this evaluation
C18_Witness ==
    \E n \in Evaluated :
        /\ locals[n].old.eta = None
        /\ ~train_info[n].arrived
        /\ ~locals[n].allow_eta_jump
        /\ train_info[n].raw_eta # None
        /\ train_info[n].eta = train_info[n].raw_eta

----------------------------------------------------------------------------
(* C19 *)

\* C19: no call ends in a division by zero: with 2 or more samples in the
\* window the span from the first to the last is not 0, and a raw ETA is
\* extrapolated only with a speed that is defined and not 0.
C19_NoDivisionByZero ==
    /\ call.made => call.raised # "ZeroDivisionError"
    /\ \A n \in Evaluated :
           /\ Len(InWindow(n)) >= 2 =>
                  InWindow(n)[Len(InWindow(n))][1] - InWindow(n)[1][1] # 0
           /\ (~train_info[n].arrived /\ train_info[n].raw_eta # None) =>
                  /\ train_info[n].avg_speed # None
                  /\ Val(train_info[n].avg_speed)[1] # 0
                  /\ Val(train_info[n].avg_speed)[2] # 0

\* the feed repeats a stored timestamp with another position, and a raw ETA
\* is extrapolated in that evaluation
C19_Witness ==
    \E n \in Evaluated :
        /\ locals[n].timestamp \in Timestamps(locals[n].old.history)
        /\ <<locals[n].timestamp, locals[n].trackmarker>>
               \notin Range(locals[n].old.history)
        /\ Len(InWindow(n)) >= 2
        /\ ~train_info[n].arrived
        /\ train_info[n].raw_eta # None

----------------------------------------------------------------------------
(* C20 *)

\* C20: an evaluation of a train outside the arrival zone before and after,
\* with an eta, eta_max_jump > 0 and the raw ETA of the evaluation before,
\* brings eta closer to raw_eta by eta_max_jump, or onto it when it is no
\* further than that, never past it; an eta on raw_eta stays there.
C20_EtaConverges ==
    \A n \in Evaluated :
        LET old == locals[n].old
            new == train_info[n]
            J == call.cfg.eta_max_jump
        IN  (/\ ~old.arrived
             /\ ~new.arrived
             /\ old.eta # None
             /\ old.raw_eta # None
             /\ new.raw_eta = old.raw_eta
             /\ J > 0)
            => /\ new.eta # None
               /\ LET raw == Val(new.raw_eta)
                      d0 == Abs(raw - Val(old.eta))
                      d1 == Abs(raw - Val(new.eta))
                  IN  /\ d0 > J => d1 = d0 - J
                      /\ d0 <= J => d1 = 0
                      /\ d0 > 0 => d1 < d0
                      /\ Val(old.eta) <= raw => Val(new.eta) <= raw
                      /\ Val(old.eta) >= raw => Val(new.eta) >= raw

\* such an evaluation with eta further than eta_max_jump from the raw ETA
C20_Witness ==
    \E n \in Evaluated :
        /\ ~locals[n].old.arrived
        /\ ~train_info[n].arrived
        /\ locals[n].old.eta # None
        /\ locals[n].old.raw_eta # None
        /\ train_info[n].raw_eta = locals[n].old.raw_eta
        /\ call.cfg.eta_max_jump > 0
        /\ Abs(Val(train_info[n].raw_eta) - Val(locals[n].old.eta))
               > call.cfg.eta_max_jump

----------------------------------------------------------------------------
(* C17 *)

\* train_info after the call of thread t alone, on train_info = info, with
\* the feed and the clock readings thread t had
AfterCallOf(t, info) ==
    Loop([info |-> info, locs |-> NoLocals, raised |-> "", done |-> << >>],
         <<[name |-> ThreadTrain, data |-> threads[t].data]>>, 1,
         threads[t].cfg, threads[t].utcnow, threads[t].now).info

\* C17 as claimed: with the steps of two calls interleaved, no history holds
\* a timestamp twice, and when both calls have ended, neither has raised and
\* train_info is what the two calls give one after the other in some order.
C17_Serialized_AsClaimed ==
    /\ \A n \in DOMAIN train_info :
           LET history == train_info[n].history
           IN  \A i, j \in 1..Len(history) : history[i][1] = history[j][1] => i = j
    /\ (\A t \in Threads : threads[t].at \in {"done", "raised"}) =>
           /\ \A t \in Threads : threads[t].at = "done"
           /\ \E t, u \in Threads :
                  /\ t # u
                  /\ train_info = AfterCallOf(u, AfterCallOf(t, NoTrains))

====
